---- MODULE Spec2Model ----
(***************************************************************************)
(* Model of tellama: the Telegram <-> Ollama relay bot.                    *)
(*                                                                         *)
(*   src/tellama/database_manager.py   DatabaseManager (the SQLite store)  *)
(*   src/tellama/tellama.py            Tellama.handle_message (pipeline)   *)
(*                                                                         *)
(* Text is modelled as a sequence of one-character strings, so that the    *)
(* string operations of the code (strip, lower, startswith, split, the     *)
(* f-string concatenations) are computed character by character.           *)
(*                                                                         *)
(* handle_message is a coroutine: it runs synchronously between its await  *)
(* points (message.reply_text, AsyncClient().chat, bot.get_me), so there   *)
(* is one action per segment between two awaits.  Every call to the store, *)
(* to the inference backend and to Telegram can raise; which calls raise   *)
(* in a segment is an input of its action.                                 *)
(***************************************************************************)
EXTENDS Integers, Sequences, FiniteSets, TLC

VARIABLES
    tellama_settings,     \* table tellama_settings: sequence of rows, by id
    allowed_groups,       \* table allowed_groups: set of rows
    allowed_users,        \* table allowed_users: set of rows
    chat_instructions,    \* table chat_instructions: sequence of rows, by id
    conversation_history, \* table conversation_history: sequence of rows, by id
    runs,                 \* the invocations of handle_message, by slot
    nstarted,             \* number of updates delivered so far
    returned,             \* the last direct call of a store method and its result
    last_set              \* history variable: the last value set_setting was given, by name

vars == <<tellama_settings, allowed_groups, allowed_users, chat_instructions,
          conversation_history, runs, nstarted, returned, last_set>>

\* An optional value (None in Python, a null column in SQL): the empty tuple
\* is None, and a value x that is present is <<x>>.
None == <<>>
Some(x) == <<x>>

\* Python's truth value of an optional text: None and "" are false.
Truthy(opt) == opt # None /\ opt[1] # <<>>

----------------------------------------------------------------------------
(* Bounds of the model.                                                    *)

\* Number of updates delivered to handle_message in one behaviour.
MaxRuns == 2

\* Number of handle_message coroutines that can exist at the same time when
\* the application processes updates concurrently.  The application as it is
\* built processes them one at a time and uses the first slot only.
MaxSlots == 2

\* Largest limit get_conversation_history is asked for in the claims about it.
MaxLimit == 3

\* Number of pieces a raw model output is made of.
MaxPieces == 3

\* Number of rows of chat_instructions an operator provisioned.
MaxInstructionRows == 2

\* Number of rows of tellama_settings.
MaxSettingRows == 4

\* Tellama.history_limit (1000 by default), scaled down so that a chat's
\* history outgrows the window within MaxRuns updates.
history_limit == 1

----------------------------------------------------------------------------
(* Text.                                                                   *)

\* str.lower() on one character (the letters the model's texts use).
LowerChar(c) ==
    CASE c = "B" -> "b"
      [] c = "O" -> "o"
      [] c = "T" -> "t"
      [] c = "H" -> "h"
      [] c = "I" -> "i"
      [] OTHER -> c

\* str.lower()
Lower(s) == [i \in 1..Len(s) |-> LowerChar(s[i])]

\* str.startswith(prefix)
StartsWith(s, prefix) ==
    /\ Len(prefix) <= Len(s)
    /\ SubSeq(s, 1, Len(prefix)) = prefix

\* The characters str.strip() removes.
IsSpace(c) == c \in {" ", "\n", "\t"}

RECURSIVE LStrip(_)
LStrip(s) ==
    IF s # <<>> /\ IsSpace(Head(s)) THEN LStrip(Tail(s)) ELSE s

RECURSIVE RStrip(_)
RStrip(s) ==
    IF s # <<>> /\ IsSpace(s[Len(s)]) THEN RStrip(SubSeq(s, 1, Len(s) - 1)) ELSE s

\* str.strip()
Strip(s) == RStrip(LStrip(s))

\* sep in s
Contains(s, sep) ==
    \E i \in 1..(Len(s) - Len(sep) + 1) : SubSeq(s, i, i + Len(sep) - 1) = sep

\* s.split(sep)[-1]: what follows the last occurrence of sep (s if there is none).
SplitLast(s, sep) ==
    IF ~Contains(s, sep) THEN s
    ELSE LET starts == {i \in 1..(Len(s) - Len(sep) + 1) :
                            SubSeq(s, i, i + Len(sep) - 1) = sep}
             last == CHOOSE i \in starts : \A j \in starts : j <= i
         IN  SubSeq(s, last + Len(sep), Len(s))

\* " ".join(parts)
RECURSIVE JoinSpace(_)
JoinSpace(parts) ==
    IF parts = <<>> THEN <<>>
    ELSE IF Len(parts) = 1 THEN parts[1]
    ELSE parts[1] \o <<" ">> \o JoinSpace(Tail(parts))

THINK_CLOSE == <<"<", "/", "t", "h", "i", "n", "k", ">">>
SKIP == <<"<", "s", "k", "i", "p", ">">>

----------------------------------------------------------------------------
(* The store: DatabaseManager.                                             *)

\* DEFAULT_INSTRUCTIONS (its first line stands for the whole constant, which
\* the code only ever concatenates).
DEFAULT_INSTRUCTIONS == <<"<", "i", "n", "s", "t", "r", ">">>

\* cursor.fetchone() on the rows a SELECT matched: the first one, or None.
FetchOne(rows) == IF rows = <<>> THEN None ELSE Some(rows[1])

\* get_setting(setting)
get_setting(setting) ==
    LET row == FetchOne(SelectSeq(tellama_settings, LAMBDA r : r.setting = setting))
    IN  IF row # None THEN Some(row[1].value) ELSE None

\* set_setting(setting, value): the table after INSERT OR REPLACE.  The only
\* key of the table is its AUTOINCREMENT id, which the statement does not
\* give, so no row conflicts and the row is inserted.
set_setting(table, setting, value) ==
    Append(table, [setting |-> setting, value |-> value])

\* is_group_allowed with a fault: the SELECT has no WHERE clause.
is_group_allowed_any_row(chat_id) == allowed_groups # {}

\* is_group_allowed(chat_id)
is_group_allowed(chat_id) == \E row \in allowed_groups : row.chat_id = chat_id

\* is_user_allowed with a fault: the SELECT reads allowed_groups.
is_user_allowed_from_groups(user_id) == \E row \in allowed_groups : row.chat_id = user_id

\* is_user_allowed(user_id)
is_user_allowed(user_id) == \E row \in allowed_users : row.user_id = user_id

\* _get_default_instructions with a fault: the SELECT has no WHERE clause.
get_default_instructions_first_row ==
    LET row == FetchOne(chat_instructions)
    IN  IF row # None THEN row[1].instructions ELSE DEFAULT_INSTRUCTIONS

\* _get_default_instructions()
get_default_instructions ==
    LET row == FetchOne(SelectSeq(chat_instructions, LAMBDA r : r.chat_id = None))
    IN  IF row # None THEN row[1].instructions ELSE DEFAULT_INSTRUCTIONS

\* fetch_instructions_for_group(chat_id)
fetch_instructions_for_group(chat_id) ==
    LET row == FetchOne(SelectSeq(chat_instructions, LAMBDA r : r.chat_id = Some(chat_id)))
    IN  IF row # None THEN row[1].instructions ELSE get_default_instructions

\* store_message with a fault: the row is given an id below every id of the
\* table, so it is the first row in id order.
store_message_first(table, timestamp, chat_id, chat_name, user_id, full_name, message_text, by) ==
    <<[id |-> 1 - Len(table),
       timestamp |-> timestamp,
       chat_id |-> chat_id,
       chat_name |-> chat_name,
       user_id |-> user_id,
       full_name |-> full_name,
       message |-> message_text,
       by |-> by]>> \o table

\* store_message with a fault: the statement is an INSERT OR REPLACE that
\* gives the id of the newest row, so that row is replaced.
store_message_replacing(table, timestamp, chat_id, chat_name, user_id, full_name, message_text, by) ==
    LET row == [id |-> IF table = <<>> THEN 1 ELSE Len(table),
                timestamp |-> timestamp,
                chat_id |-> chat_id,
                chat_name |-> chat_name,
                user_id |-> user_id,
                full_name |-> full_name,
                message |-> message_text,
                by |-> by]
    IN  IF table = <<>> THEN <<row>> ELSE [table EXCEPT ![Len(table)] = row]

\* store_message: the table after the INSERT (id is AUTOINCREMENT: rows are
\* never deleted, so the new id is the number of rows plus one).  The clock
\* that stamps the row is the number of updates delivered.  `by` is a
\* history variable: the run that made the call.
store_message(table, timestamp, chat_id, chat_name, user_id, full_name, message_text, by) ==
    Append(table, [id |-> Len(table) + 1,
                   timestamp |-> timestamp,
                   chat_id |-> chat_id,
                   chat_name |-> chat_name,
                   user_id |-> user_id,
                   full_name |-> full_name,
                   message |-> message_text,
                   by |-> by])

\* SelectDesc with a fault: the SELECT has no WHERE clause.
RECURSIVE SelectDescAnyChat(_, _)
SelectDescAnyChat(table, chat_id) ==
    IF table = <<>> THEN <<>>
    ELSE <<table[Len(table)]>>
         \o SelectDescAnyChat(SubSeq(table, 1, Len(table) - 1), chat_id)

\* WHERE chat_id = ? ORDER BY id DESC
RECURSIVE SelectDesc(_, _)
SelectDesc(table, chat_id) ==
    IF table = <<>> THEN <<>>
    ELSE LET row == table[Len(table)]
             rest == SelectDesc(SubSeq(table, 1, Len(table) - 1), chat_id)
         IN  IF row.chat_id = chat_id THEN <<row>> \o rest ELSE rest

\* LIMIT ?  (SQLite: a negative LIMIT is no limit)
Limit(rows, limit) ==
    IF limit < 0 \/ limit >= Len(rows) THEN rows ELSE SubSeq(rows, 1, limit)

\* list.reverse()
Reverse(rows) == [i \in 1..Len(rows) |-> rows[Len(rows) + 1 - i]]

\* get_conversation_history with a fault: rows.reverse() is missing.
get_conversation_history_unreversed(table, chat_id, limit) ==
    LET rows == Limit(SelectDesc(table, chat_id), limit)
    IN  [i \in 1..Len(rows) |->
            [timestamp |-> rows[i].timestamp,
             chat_id |-> chat_id,
             chat_name |-> rows[i].chat_name,
             user_id |-> rows[i].user_id,
             full_name |-> rows[i].full_name,
             message |-> rows[i].message]]

\* get_conversation_history(chat_id, limit) on a given table
get_conversation_history(table, chat_id, limit) ==
    LET rows == Reverse(Limit(SelectDesc(table, chat_id), limit))
    IN  [i \in 1..Len(rows) |->
            [timestamp |-> rows[i].timestamp,
             chat_id |-> chat_id,
             chat_name |-> rows[i].chat_name,
             user_id |-> rows[i].user_id,
             full_name |-> rows[i].full_name,
             message |-> rows[i].message]]

----------------------------------------------------------------------------
(* Telegram and Ollama: the values the pipeline receives.                  *)

\* Chat.PRIVATE and another chat type.
PRIVATE == "private"
GROUP == "group"

\* self.application.bot.id, .username, and the User that get_me() returns.
BotId == 9
BotUsername == <<"B", "o", "t">>
BotUser == [first_name |-> <<"T", "e", "l">>, last_name |-> None]

\* The senders and the chats of the model.  A private chat has the id of
\* the user it is with.
Ann == [id |-> 1, full_name |-> <<"A", "n", "n">>]
Bob == [id |-> 2, full_name |-> <<"B", "o">>]
Bot == [id |-> BotId, full_name |-> <<"T", "e", "l">>]

PrivateChat(user) == [id |-> user.id, type |-> PRIVATE, title |-> None]
Group11 == [id |-> 11, type |-> GROUP, title |-> Some(<<"G">>)]
Group12 == [id |-> 12, type |-> GROUP, title |-> None]
Group13 == [id |-> 13, type |-> GROUP, title |-> None]

\* Message texts: plain, mentioning the bot at the start (in another case
\* than the username), and mentioning it later in the text.
TextPlain == <<"h", "i">>
TextMention == <<"@", "B", "O", "T", " ", "h", "i">>
TextMentionLater == <<"h", "i", " ", "@", "b", "o", "t">>

Update(chat, text, from_user) ==
    [effective_chat |-> Some(chat),
     effective_message |-> Some([text |-> text, from_user |-> from_user])]

\* The updates Telegram delivers: the malformed ones, one of the bot itself,
\* and messages in the private chats of Ann and Bob and in three groups.
Updates ==
    {[effective_chat |-> None,
      effective_message |-> Some([text |-> Some(TextPlain), from_user |-> Some(Ann)])],
     [effective_chat |-> Some(Group11), effective_message |-> None],
     Update(Group11, None, Some(Ann)),
     Update(Group11, Some(<<>>), Some(Ann)),
     Update(Group11, Some(TextMention), None),
     Update(Group11, Some(TextMention), Some(Bot)),
     Update(PrivateChat(Ann), Some(TextPlain), Some(Ann)),
     Update(PrivateChat(Bob), Some(TextPlain), Some(Bob)),
     Update(Group11, Some(TextMention), Some(Ann)),
     Update(Group11, Some(TextMentionLater), Some(Bob)),
     Update(Group12, Some(TextMention), Some(Ann)),
     Update(Group13, Some(TextPlain), Some(Bob))}

\* response["message"]["content"]: what the model answers.
RawAnswers ==
    {<<" ", "o", "k", "\n">>,
     <<"x">> \o THINK_CLOSE \o <<" ", "y", "o">>,
     <<" ">> \o SKIP,
     THINK_CLOSE \o SKIP \o <<" ">>}

\* The string constants of handle_message.
PRIVATE_CHAT_DISALLOWED_DEFAULT ==
    <<"S", "o", "r", "r", "y", ",", " ", "y", "o", "u", " ", "d", "o", " ",
    "n", "o", "t", " ", "h", "a", "v", "e", " ", "p", "e", "r", "m", "i",
    "s", "s", "i", "o", "n", " ", "t", "o", " ", "c", "h", "a", "t", " ",
    "w", "i", "t", "h", " ", "m", "e", ".">>
INTERNAL_ERROR_DEFAULT ==
    <<"A", "n", " ", "i", "n", "t", "e", "r", "n", "a", "l", " ", "e", "r",
    "r", "o", "r", " ", "o", "c", "c", "u", "r", "r", "e", "d", " ", "w",
    "h", "i", "l", "e", " ", "p", "r", "o", "c", "e", "s", "s", "i", "n",
    "g", " ", "y", "o", "u", "r", " ", "m", "e", "s", "s", "a", "g", "e",
    ".">>
PRIVATE_CHAT_WITH ==
    <<"P", "r", "i", "v", "a", "t", "e", " ", "C", "h", "a", "t", " ", "w",
    "i", "t", "h", " ">>
UNKNOWN_CHAT ==
    <<"U", "n", "k", "n", "o", "w", "n", " ", "C", "h", "a", "t">>

----------------------------------------------------------------------------
(* One invocation of handle_message.                                       *)
(*                                                                         *)
(*   pc        where the coroutine is: "idle" (no invocation yet), waiting *)
(*             at an await ("deny_reply", "infer", "relay", "get_me",      *)
(*             "err_reply"), returned ("done") or left by an exception     *)
(*             that nothing caught ("raised")                              *)
(*   update, chat_name, messages, content (the text of the response),      *)
(*             answer: the locals of handle_message                        *)
(*   reply     the text of the reply_text call that is being awaited       *)
(*   request   the messages argument of AsyncClient().chat                 *)
(*   rid, log, sent, faults: history variables.  log is the sequence of    *)
(*             calls the run made, each with its result ("pending" while   *)
(*             awaited); sent is what Telegram delivered for the run;      *)
(*             faults is the set of calls that raised                      *)
(***************************************************************************)

Slots == 1..MaxSlots

Terminal == {"idle", "done", "raised"}

IdleRun ==
    [pc |-> "idle", rid |-> 0,
     update |-> [effective_chat |-> None, effective_message |-> None],
     chat_name |-> <<>>, messages |-> <<>>, content |-> <<>>, answer |-> <<>>,
     reply |-> <<>>, request |-> <<>>, log |-> <<>>, sent |-> <<>>, faults |-> {}]

\* The run r after a synchronous call that returned (ok) or raised.
Call(r, op, tag, ok) ==
    [r EXCEPT !.log = Append(@, [op |-> op, tag |-> tag,
                                 res |-> IF ok THEN "ok" ELSE "raised"]),
              !.faults = IF ok THEN @ ELSE @ \cup {op}]

\* The run r suspended at `await op(...)`.
Await(r, op, tag, pc) ==
    [r EXCEPT !.log = Append(@, [op |-> op, tag |-> tag, res |-> "pending"]),
              !.pc = pc]

\* The run r resumed: the awaited call returned (ok) or raised.
Resume(r, ok) ==
    [r EXCEPT !.log[Len(r.log)].res = IF ok THEN "ok" ELSE "raised",
              !.faults = IF ok THEN @ ELSE @ \cup {r.log[Len(r.log)].op}]

\* Telegram delivered the awaited reply, to the chat of the message it
\* replies to.
Delivered(r) ==
    [r EXCEPT !.sent = Append(@, [tag |-> r.log[Len(r.log)].tag,
                                  chat_id |-> r.update.effective_chat[1].id,
                                  text |-> r.reply])]

\* ExceptBlock with a fault: the setting is looked up but the built-in
\* message is sent whatever it holds.
ExceptBlockBuiltInOnly(r, F) ==
    LET ok == "get_setting" \notin F
        r1 == Call(r, "get_setting", "internal_error_message", ok)
    IN  IF ~ok THEN [r1 EXCEPT !.pc = "raised"]
        ELSE Await([r1 EXCEPT !.reply = INTERNAL_ERROR_DEFAULT],
                   "reply_text", "error", "err_reply")

\* The except block, up to its await: the setting is looked up, outside any
\* try, and the error reply is sent.
ExceptBlock(r, F) ==
    LET ok == "get_setting" \notin F
        r1 == Call(r, "get_setting", "internal_error_message", ok)
        internal_error_message == get_setting("internal_error_message")
    IN  IF ~ok THEN [r1 EXCEPT !.pc = "raised"]
        ELSE Await([r1 EXCEPT !.reply =
                        IF internal_error_message = None
                        THEN INTERNAL_ERROR_DEFAULT
                        ELSE internal_error_message[1]],
                   "reply_text", "error", "err_reply")

\* AssembleMessages with a fault: the rows of the bot are not told from the
\* others.
AssembleMessagesAllUser(history_messages) ==
    [i \in 1..Len(history_messages) |->
        [role |-> "user",
         content |-> history_messages[i].full_name \o <<":", " ">>
                     \o history_messages[i].message]]

\* The loop that turns the history rows into role messages.
AssembleMessages(history_messages) ==
    [i \in 1..Len(history_messages) |->
        IF history_messages[i].user_id = BotId
        THEN [role |-> "assistant", content |-> history_messages[i].message]
        ELSE [role |-> "user",
              content |-> history_messages[i].full_name \o <<":", " ">>
                          \o history_messages[i].message]]

\* NotAddressed with a fault: the mention is looked for anywhere in the text.
NotAddressedAnywhere(chat, text) ==
    /\ chat.type # PRIVATE
    /\ ~Contains(Lower(text), <<"@">> \o Lower(BotUsername))

\* The mention gate: true when the run stops after storing the message.
NotAddressed(chat, text) ==
    /\ chat.type # PRIVATE
    /\ ~StartsWith(Lower(text), <<"@">> \o Lower(BotUsername))

\* The prompt f-string.
Prompt(instructions, from_user, text) ==
    instructions \o <<"\n", "\n">> \o from_user.full_name \o <<":", " ">> \o text

\* TryBlock with a fault: the mention gate comes before the message is
\* stored, so a message that does not address the bot is not stored.
TryBlockGateFirst(r, chat, text, from_user, F) ==
    LET okRead == "get_conversation_history" \notin F
        r1 == Call(r, "get_conversation_history", "", okRead)
        history_messages ==
            get_conversation_history(conversation_history, chat.id, history_limit)
        messages == AssembleMessages(history_messages)
        okStore == "store_message" \notin F
        r2 == Call([r1 EXCEPT !.messages = messages], "store_message", "inbound", okStore)
        stored == store_message(conversation_history, nstarted + 1, chat.id, r.chat_name,
                                from_user.id, from_user.full_name, text, r.rid)
        okInstr == "fetch_instructions_for_group" \notin F
        r3 == Call(r2, "fetch_instructions_for_group", "", okInstr)
        prompt == Prompt(fetch_instructions_for_group(chat.id), from_user, text)
    IN  IF ~okRead
        THEN [run |-> ExceptBlock(r1, F), history |-> conversation_history]
        ELSE IF NotAddressed(chat, text)
        THEN [run |-> [r1 EXCEPT !.messages = messages, !.pc = "done"],
              history |-> conversation_history]
        ELSE IF ~okStore
        THEN [run |-> ExceptBlock(r2, F), history |-> conversation_history]
        ELSE IF ~okInstr
        THEN [run |-> ExceptBlock(r3, F), history |-> stored]
        ELSE [run |-> Await([r3 EXCEPT !.request =
                                messages \o <<[role |-> "user", content |-> prompt]>>],
                            "chat", "", "infer"),
              history |-> stored]

\* TryBlock with a fault: the inbound message is stored before the history
\* is read, so the window holds it.
TryBlockStoreFirst(r, chat, text, from_user, F) ==
    LET okRead == "get_conversation_history" \notin F
        r1 == Call(r, "get_conversation_history", "", okRead)
        history_messages ==
            get_conversation_history(
                store_message(conversation_history, nstarted + 1, chat.id, r.chat_name,
                              from_user.id, from_user.full_name, text, r.rid),
                chat.id, history_limit)
        messages == AssembleMessages(history_messages)
        okStore == "store_message" \notin F
        r2 == Call([r1 EXCEPT !.messages = messages], "store_message", "inbound", okStore)
        stored == store_message(conversation_history, nstarted + 1, chat.id, r.chat_name,
                                from_user.id, from_user.full_name, text, r.rid)
        okInstr == "fetch_instructions_for_group" \notin F
        r3 == Call(r2, "fetch_instructions_for_group", "", okInstr)
        prompt == Prompt(fetch_instructions_for_group(chat.id), from_user, text)
    IN  IF ~okRead
        THEN [run |-> ExceptBlock(r1, F), history |-> conversation_history]
        ELSE IF ~okStore
        THEN [run |-> ExceptBlock(r2, F), history |-> conversation_history]
        ELSE IF NotAddressed(chat, text)
        THEN [run |-> [r2 EXCEPT !.pc = "done"], history |-> stored]
        ELSE IF ~okInstr
        THEN [run |-> ExceptBlock(r3, F), history |-> stored]
        ELSE [run |-> Await([r3 EXCEPT !.request =
                                messages \o <<[role |-> "user", content |-> prompt]>>],
                            "chat", "", "infer"),
              history |-> stored]

\* The try block, up to the await of the inference call.  The result is the
\* run and the history table.
TryBlock(r, chat, text, from_user, F) ==
    LET okRead == "get_conversation_history" \notin F
        r1 == Call(r, "get_conversation_history", "", okRead)
        history_messages ==
            get_conversation_history(conversation_history, chat.id, history_limit)
        messages == AssembleMessages(history_messages)
        okStore == "store_message" \notin F
        r2 == Call([r1 EXCEPT !.messages = messages], "store_message", "inbound", okStore)
        stored == store_message(conversation_history, nstarted + 1, chat.id, r.chat_name,
                                from_user.id, from_user.full_name, text, r.rid)
        okInstr == "fetch_instructions_for_group" \notin F
        r3 == Call(r2, "fetch_instructions_for_group", "", okInstr)
        prompt == Prompt(fetch_instructions_for_group(chat.id), from_user, text)
    IN  IF ~okRead
        THEN [run |-> ExceptBlock(r1, F), history |-> conversation_history]
        ELSE IF ~okStore
        THEN [run |-> ExceptBlock(r2, F), history |-> conversation_history]
        ELSE IF NotAddressed(chat, text)
        THEN [run |-> [r2 EXCEPT !.pc = "done"], history |-> stored]
        ELSE IF ~okInstr
        THEN [run |-> ExceptBlock(r3, F), history |-> stored]
        ELSE [run |-> Await([r3 EXCEPT !.request =
                                messages \o <<[role |-> "user", content |-> prompt]>>],
                            "chat", "", "infer"),
              history |-> stored]

\* The denial of a private chat, up to its await.
DenyPrivate(r, F) ==
    LET ok == "get_setting" \notin F
        r1 == Call(r, "get_setting", "private_chat_disallowed_message", ok)
        private_chat_disallowed_message == get_setting("private_chat_disallowed_message")
    IN  IF ~ok THEN [r1 EXCEPT !.pc = "raised"]
        ELSE Await([r1 EXCEPT !.reply =
                        IF private_chat_disallowed_message = None
                        THEN PRIVATE_CHAT_DISALLOWED_DEFAULT
                        ELSE private_chat_disallowed_message[1]],
                   "reply_text", "denial", "deny_reply")

\* The authorization of a private chat and what follows it.
PrivateBranch(r, chat, text, from_user, F) ==
    LET ok == "is_user_allowed" \notin F
        r1 == Call([r EXCEPT !.chat_name = PRIVATE_CHAT_WITH \o from_user.full_name],
                   "is_user_allowed", "", ok)
    IN  IF ~ok
        THEN [run |-> [r1 EXCEPT !.pc = "raised"], history |-> conversation_history]
        ELSE IF ~is_user_allowed(from_user.id)
        THEN [run |-> DenyPrivate(r1, F), history |-> conversation_history]
        ELSE TryBlock(r1, chat, text, from_user, F)

\* GroupBranch with a fault: a group that is not allowed is answered like a
\* private chat that is not allowed.
GroupBranchDenialReply(r, chat, text, from_user, F) ==
    LET ok == "is_group_allowed" \notin F
        r1 == Call([r EXCEPT !.chat_name =
                        IF Truthy(chat.title) THEN chat.title[1] ELSE UNKNOWN_CHAT],
                   "is_group_allowed", "", ok)
    IN  IF ~ok
        THEN [run |-> [r1 EXCEPT !.pc = "raised"], history |-> conversation_history]
        ELSE IF ~is_group_allowed(chat.id)
        THEN [run |-> DenyPrivate(r1, F), history |-> conversation_history]
        ELSE TryBlock(r1, chat, text, from_user, F)

\* The authorization of any other chat and what follows it.
GroupBranch(r, chat, text, from_user, F) ==
    LET ok == "is_group_allowed" \notin F
        r1 == Call([r EXCEPT !.chat_name =
                        IF Truthy(chat.title) THEN chat.title[1] ELSE UNKNOWN_CHAT],
                   "is_group_allowed", "", ok)
    IN  IF ~ok
        THEN [run |-> [r1 EXCEPT !.pc = "raised"], history |-> conversation_history]
        ELSE IF ~is_group_allowed(chat.id)
        THEN [run |-> [r1 EXCEPT !.pc = "done"], history |-> conversation_history]
        ELSE TryBlock(r1, chat, text, from_user, F)

\* HandleEntry with a fault: the sender is not compared with the bot.
HandleEntryNoSelfFilter(rid, update, F) ==
    LET r == [IdleRun EXCEPT !.rid = rid, !.update = update, !.pc = "done"]
        dropped == [run |-> r, history |-> conversation_history]
    IN  IF \/ update.effective_chat = None
           \/ update.effective_message = None
        THEN dropped
        ELSE LET chat == update.effective_chat[1]
                 message == update.effective_message[1]
             IN  IF ~Truthy(message.text) THEN dropped
                 ELSE IF message.from_user = None THEN dropped
                 ELSE IF chat.type = PRIVATE
                 THEN PrivateBranch(r, chat, message.text[1], message.from_user[1], F)
                 ELSE GroupBranch(r, chat, message.text[1], message.from_user[1], F)

\* handle_message from its entry to its first await or its return.
HandleEntry(rid, update, F) ==
    LET r == [IdleRun EXCEPT !.rid = rid, !.update = update, !.pc = "done"]
        dropped == [run |-> r, history |-> conversation_history]
    IN  IF \/ update.effective_chat = None
           \/ update.effective_message = None
        THEN dropped
        ELSE LET chat == update.effective_chat[1]
                 message == update.effective_message[1]
             IN  IF ~Truthy(message.text) THEN dropped
                 ELSE IF message.from_user = None THEN dropped
                 ELSE IF message.from_user[1].id = BotId THEN dropped
                 ELSE IF chat.type = PRIVATE
                 THEN PrivateBranch(r, chat, message.text[1], message.from_user[1], F)
                 ELSE GroupBranch(r, chat, message.text[1], message.from_user[1], F)

\* ExtractAnswer with a fault: what follows the marker is not stripped again.
ExtractAnswerNoRestrip(content) ==
    LET answer == Strip(content)
    IN  IF Contains(answer, THINK_CLOSE)
        THEN SplitLast(answer, THINK_CLOSE)
        ELSE answer

\* Lines 146-151: the answer text extracted from the raw model output.
ExtractAnswer(content) ==
    LET answer == Strip(content)
    IN  IF Contains(answer, THINK_CLOSE)
        THEN Strip(SplitLast(answer, THINK_CLOSE))
        ELSE answer

\* AfterChat with a fault: an inference call that raised is made once more.
AfterChatRetriesOnce(r, ok, content, F) ==
    LET r1 == Resume(r, ok)
        answer == ExtractAnswer(content)
        r2 == [r1 EXCEPT !.content = content, !.answer = answer]
    IN  IF ~ok
        THEN IF Cardinality({i \in DOMAIN r1.log : r1.log[i].op = "chat"}) < 2
             THEN Await(r1, "chat", "", "infer")
             ELSE ExceptBlock(r1, F)
        ELSE IF answer = SKIP THEN [r2 EXCEPT !.pc = "done"]
        ELSE Await([r2 EXCEPT !.reply = answer], "reply_text", "answer", "relay")

\* AfterChat with a fault: the skip sentinel is compared with the text of the
\* response as it came, before it is stripped.
AfterChatSkipUnstripped(r, ok, content, F) ==
    LET r1 == Resume(r, ok)
        answer == ExtractAnswer(content)
        r2 == [r1 EXCEPT !.content = content, !.answer = answer]
    IN  IF ~ok THEN ExceptBlock(r1, F)
        ELSE IF content = SKIP THEN [r2 EXCEPT !.pc = "done"]
        ELSE Await([r2 EXCEPT !.reply = answer], "reply_text", "answer", "relay")

\* handle_message from the return of the inference call to the next await.
AfterChat(r, ok, content, F) ==
    LET r1 == Resume(r, ok)
        answer == ExtractAnswer(content)
        r2 == [r1 EXCEPT !.content = content, !.answer = answer]
    IN  IF ~ok THEN ExceptBlock(r1, F)
        ELSE IF answer = SKIP THEN [r2 EXCEPT !.pc = "done"]
        ELSE Await([r2 EXCEPT !.reply = answer], "reply_text", "answer", "relay")

\* AfterRelay with a fault: a reply_text that raised is taken for sent, and
\* the run goes on to store the answer.
AfterRelayUnchecked(r, ok, F) ==
    LET r1 == Resume(r, ok)
    IN  Await(IF ok THEN Delivered(r1) ELSE r1, "get_me", "", "get_me")

\* handle_message from the return of reply_text(answer) to the next await.
AfterRelay(r, ok, F) ==
    LET r1 == Resume(r, ok)
    IN  IF ~ok THEN ExceptBlock(r1, F)
        ELSE Await(Delivered(r1), "get_me", "", "get_me")

\* AfterGetMe with a fault: the text of the response is stored as it came,
\* not the answer that was relayed.
AfterGetMeStoresContent(r, ok, F) ==
    LET r1 == Resume(r, ok)
        chat == r.update.effective_chat[1]
        bot_full_name ==
            JoinSpace(SelectSeq(<<Some(BotUser.first_name), BotUser.last_name>>, Truthy))
        okStore == "store_message" \notin F
        r2 == Call(r1, "store_message", "outbound", okStore)
        stored == store_message(conversation_history, nstarted, chat.id, r.chat_name,
                                BotId, bot_full_name, r.content, r.rid)
    IN  IF ~ok
        THEN [run |-> ExceptBlock(r1, F), history |-> conversation_history]
        ELSE IF ~okStore
        THEN [run |-> ExceptBlock(r2, F), history |-> conversation_history]
        ELSE [run |-> [r2 EXCEPT !.pc = "done"], history |-> stored]

\* handle_message from the return of get_me() to the end of the try block.
AfterGetMe(r, ok, F) ==
    LET r1 == Resume(r, ok)
        chat == r.update.effective_chat[1]
        bot_full_name ==
            JoinSpace(SelectSeq(<<Some(BotUser.first_name), BotUser.last_name>>, Truthy))
        okStore == "store_message" \notin F
        r2 == Call(r1, "store_message", "outbound", okStore)
        stored == store_message(conversation_history, nstarted, chat.id, r.chat_name,
                                BotId, bot_full_name, r.answer, r.rid)
    IN  IF ~ok
        THEN [run |-> ExceptBlock(r1, F), history |-> conversation_history]
        ELSE IF ~okStore
        THEN [run |-> ExceptBlock(r2, F), history |-> conversation_history]
        ELSE [run |-> [r2 EXCEPT !.pc = "done"], history |-> stored]

\* The return of a reply_text that nothing follows (the denial, line 93, and
\* the error reply, line 185): a failure leaves handle_message.
AfterLastReply(r, ok) ==
    LET r1 == Resume(r, ok)
    IN  IF ok THEN [Delivered(r1) EXCEPT !.pc = "done"]
        ELSE [r1 EXCEPT !.pc = "raised"]

----------------------------------------------------------------------------
(* The state machine.                                                      *)

\* The names and the values of the settings.
SettingNames == {"private_chat_disallowed_message", "internal_error_message"}
SettingValues == {<<"n", "o">>, <<"v">>}

\* No store method was called directly yet.
NoCall == [op |-> "none"]

\* The tables an operator provisioned before the bot runs: no settings and
\* no instructions at all, or both settings and instructions for the default
\* and for group 11.  Ann and the groups 11 and 13 are allowed; Bob and
\* group 12 are not.
Provisioned ==
    {[settings |-> <<>>, instructions |-> <<>>],
     [settings |->
        <<[setting |-> "private_chat_disallowed_message", value |-> <<"n", "o">>],
          [setting |-> "internal_error_message", value |-> <<"e", "r", "r">>]>>,
      instructions |->
        <<[chat_id |-> None, instructions |-> <<"d", "e", "f">>],
          [chat_id |-> Some(11), instructions |-> <<"g", "r", "p">>]>>]}

Init ==
    /\ \E p \in Provisioned :
          /\ tellama_settings = p.settings
          /\ chat_instructions = p.instructions
    /\ allowed_groups = {[chat_id |-> 11, chat_name |-> <<"G">>],
                         [chat_id |-> 13, chat_name |-> <<"H">>]}
    /\ allowed_users = {[user_id |-> 1, user_name |-> <<"a", "n", "n">>]}
    /\ conversation_history = <<>>
    /\ runs = [s \in Slots |-> IdleRun]
    /\ nstarted = 0
    /\ returned = NoCall
    /\ last_set = [name \in SettingNames |-> get_setting(name)]

Store == <<tellama_settings, allowed_groups, allowed_users, chat_instructions>>

\* What only the direct calls of the store methods change.
Api == <<returned, last_set>>

\* Telegram delivers an update: the Application processes updates one at a
\* time, so handle_message starts when no other invocation is in progress.
Begin(s, update, F) ==
    /\ nstarted < MaxRuns
    /\ \A q \in Slots : runs[q].pc \in Terminal
    /\ s = CHOOSE q \in Slots : \A q2 \in Slots : q <= q2
    /\ LET out == HandleEntry(nstarted + 1, update, F)
       IN  /\ runs' = [runs EXCEPT ![s] = out.run]
           /\ conversation_history' = out.history
    /\ nstarted' = nstarted + 1
    /\ UNCHANGED <<Store, Api>>

\* The inference call returns or raises.
ChatReturns(s, ok, content, F) ==
    /\ runs[s].pc = "infer"
    /\ runs' = [runs EXCEPT ![s] = AfterChat(runs[s], ok, content, F)]
    /\ UNCHANGED <<Store, Api, conversation_history, nstarted>>

\* reply_text(answer) returns or raises.
RelayReturns(s, ok, F) ==
    /\ runs[s].pc = "relay"
    /\ runs' = [runs EXCEPT ![s] = AfterRelay(runs[s], ok, F)]
    /\ UNCHANGED <<Store, Api, conversation_history, nstarted>>

\* get_me() returns or raises.
GetMeReturns(s, ok, F) ==
    /\ runs[s].pc = "get_me"
    /\ LET out == AfterGetMe(runs[s], ok, F)
       IN  /\ runs' = [runs EXCEPT ![s] = out.run]
           /\ conversation_history' = out.history
    /\ UNCHANGED <<Store, Api, nstarted>>

\* The denial reply returns or raises.
DenyReplyReturns(s, ok) ==
    /\ runs[s].pc = "deny_reply"
    /\ runs' = [runs EXCEPT ![s] = AfterLastReply(runs[s], ok)]
    /\ UNCHANGED <<Store, Api, conversation_history, nstarted>>

\* The error reply returns or raises.
ErrReplyReturns(s, ok) ==
    /\ runs[s].pc = "err_reply"
    /\ runs' = [runs EXCEPT ![s] = AfterLastReply(runs[s], ok)]
    /\ UNCHANGED <<Store, Api, conversation_history, nstarted>>

\* Which calls of a segment raise.  A segment ends at the first call that
\* raises inside the try block and then runs the except block, so at most
\* one call of the segment and the get_setting of the except block raise.
EntryFaults ==
    {{}} \cup {{c} : c \in {"is_user_allowed", "is_group_allowed", "get_setting",
                            "get_conversation_history", "store_message",
                            "fetch_instructions_for_group"}}
         \cup {{c, "get_setting"} : c \in {"get_conversation_history", "store_message",
                                           "fetch_instructions_for_group"}}
SettingFaults == {{}, {"get_setting"}}
GetMeFaults == {{}, {"store_message"}, {"get_setting"}, {"store_message", "get_setting"}}

Next ==
    \E s \in Slots :
        \/ \E update \in Updates, F \in EntryFaults : Begin(s, update, F)
        \/ \E content \in RawAnswers, F \in SettingFaults :
              ChatReturns(s, TRUE, content, F)
        \/ \E F \in SettingFaults : ChatReturns(s, FALSE, <<>>, F)
        \/ \E ok \in BOOLEAN, F \in SettingFaults : RelayReturns(s, ok, F)
        \/ \E ok \in BOOLEAN, F \in GetMeFaults : GetMeReturns(s, ok, F)
        \/ \E ok \in BOOLEAN : DenyReplyReturns(s, ok)
        \/ \E ok \in BOOLEAN : ErrReplyReturns(s, ok)

Spec == Init /\ [][Next]_vars

----------------------------------------------------------------------------
(* The application processing updates concurrently: a coroutine of         *)
(* handle_message is started for an update while others are suspended at   *)
(* their awaits.  The coroutines run on one event loop, so each runs       *)
(* from an await to the next without another one in between.               *)

\* The updates of the concurrent runs: two senders in the allowed group 11,
\* one of them not addressing the bot, and Ann in her private chat.
ConcurrentUpdates ==
    {Update(Group11, Some(TextMention), Some(Ann)),
     Update(Group11, Some(TextMentionLater), Some(Bob)),
     Update(PrivateChat(Ann), Some(TextPlain), Some(Ann))}

\* An update is delivered while other coroutines may be suspended.
BeginConcurrent(s, update, F) ==
    /\ nstarted < MaxRuns
    /\ runs[s].pc \in Terminal
    /\ \A q \in Slots : runs[q].pc \in Terminal => s <= q
    /\ LET out == HandleEntry(nstarted + 1, update, F)
       IN  /\ runs' = [runs EXCEPT ![s] = out.run]
           /\ conversation_history' = out.history
    /\ nstarted' = nstarted + 1
    /\ UNCHANGED <<Store, Api>>

NextConcurrent ==
    \E s \in Slots :
        \/ \E update \in ConcurrentUpdates, F \in {{}, {"store_message"}} :
              BeginConcurrent(s, update, F)
        \/ ChatReturns(s, TRUE, <<" ", "o", "k", "\n">>, {})
        \/ ChatReturns(s, FALSE, <<>>, {})
        \/ \E ok \in BOOLEAN : RelayReturns(s, ok, {})
        \/ \E ok \in BOOLEAN, F \in {{}, {"store_message"}} : GetMeReturns(s, ok, F)
        \/ \E ok \in BOOLEAN : ErrReplyReturns(s, ok)

SpecConcurrent == Init /\ [][NextConcurrent]_vars

----------------------------------------------------------------------------
(* The settings, written and read by the operator's tooling.               *)

\* set_setting(setting, value) is called.
SetSetting(setting, value) ==
    /\ Len(tellama_settings) < MaxSettingRows
    /\ tellama_settings' = set_setting(tellama_settings, setting, value)
    /\ last_set' = [last_set EXCEPT ![setting] = Some(value)]
    /\ returned' = [op |-> "set_setting", setting |-> setting]
    /\ UNCHANGED <<allowed_groups, allowed_users, chat_instructions,
                   conversation_history, runs, nstarted>>

\* get_setting(setting) is called.
GetSetting(setting) ==
    /\ returned' = [op |-> "get_setting", setting |-> setting,
                    value |-> get_setting(setting)]
    /\ UNCHANGED <<Store, conversation_history, runs, nstarted, last_set>>

NextSettings ==
    \/ \E setting \in SettingNames, value \in SettingValues : SetSetting(setting, value)
    \/ \E setting \in SettingNames : GetSetting(setting)

SpecSettings == Init /\ [][NextSettings]_vars

----------------------------------------------------------------------------
(* The authorization lookups, called directly while the bot runs.          *)

\* is_group_allowed(chat_id) is called.
IsGroupAllowed(chat_id) ==
    /\ returned' = [op |-> "is_group_allowed", id |-> chat_id,
                    value |-> is_group_allowed(chat_id)]
    /\ UNCHANGED <<Store, conversation_history, runs, nstarted, last_set>>

\* is_user_allowed(user_id) is called.
IsUserAllowed(user_id) ==
    /\ returned' = [op |-> "is_user_allowed", id |-> user_id,
                    value |-> is_user_allowed(user_id)]
    /\ UNCHANGED <<Store, conversation_history, runs, nstarted, last_set>>

NextAuth ==
    \/ Next
    \/ \E chat_id \in {Group11.id, Group12.id} : IsGroupAllowed(chat_id)
    \/ \E user_id \in {Ann.id, Bob.id} : IsUserAllowed(user_id)

SpecAuth == Init /\ [][NextAuth]_vars

----------------------------------------------------------------------------
(* The instructions of a chat, over the tables an operator may provision.  *)

\* The rows of chat_instructions: for the default (a null chat_id) or for a
\* chat, with a text that may be empty.
InstructionRows ==
    [chat_id : {None, Some(11), Some(12)}, instructions : {<<>>, <<"d">>, <<"g">>}]

RECURSIVE TablesOf(_, _)
TablesOf(rows, n) ==
    IF n = 0 THEN {<<>>}
    ELSE LET shorter == TablesOf(rows, n - 1)
         IN  shorter \cup {Append(t, row) : t \in shorter, row \in rows}

InitInstructions ==
    /\ tellama_settings = <<>>
    /\ chat_instructions \in TablesOf(InstructionRows, MaxInstructionRows)
    /\ allowed_groups = {}
    /\ allowed_users = {}
    /\ conversation_history = <<>>
    /\ runs = [s \in Slots |-> IdleRun]
    /\ nstarted = 0
    /\ returned = NoCall
    /\ last_set = [name \in SettingNames |-> None]

\* fetch_instructions_for_group(chat_id) is called.
FetchInstructions(chat_id) ==
    /\ returned' = [op |-> "fetch_instructions_for_group", chat_id |-> chat_id,
                    value |-> fetch_instructions_for_group(chat_id)]
    /\ UNCHANGED <<Store, conversation_history, runs, nstarted, last_set>>

NextInstructions == \E chat_id \in {11, 12, 13} : FetchInstructions(chat_id)

SpecInstructions == InitInstructions /\ [][NextInstructions]_vars

----------------------------------------------------------------------------
(* The post-processing of the model output, over raw texts.                *)

\* Lines 145-155: the text to relay, and whether the run returns without
\* relaying anything.
PostProcess(content) ==
    LET answer == ExtractAnswer(content)
    IN  [answer |-> answer, skip |-> (answer = SKIP)]

\* What raw model outputs are made of.
Pieces == {<<" ">>, <<"\n">>, <<"a">>, <<"<">>, THINK_CLOSE, SKIP}

RECURSIVE TextsOf(_)
TextsOf(n) ==
    IF n = 0 THEN {<<>>}
    ELSE LET shorter == TextsOf(n - 1)
         IN  shorter \cup {t \o piece : t \in shorter, piece \in Pieces}

ThinkThenHello == <<"a", "b", "c">> \o THINK_CLOSE \o <<" ", " ", "h", "e", "l", "l", "o", " ">>
PaddedPlain == <<" ", " ", "p", "l", "a", "i", "n", " ">>

RawTexts == TextsOf(MaxPieces) \cup {ThinkThenHello, PaddedPlain}

InitText ==
    /\ tellama_settings = <<>>
    /\ chat_instructions = <<>>
    /\ allowed_groups = {}
    /\ allowed_users = {}
    /\ conversation_history = <<>>
    /\ runs = [s \in Slots |-> IdleRun]
    /\ nstarted = 0
    /\ returned = NoCall
    /\ last_set = [name \in SettingNames |-> None]

\* The model returned `content` and lines 145-155 ran on it.
PostProcessed(content) ==
    /\ returned' = [op |-> "post_process", content |-> content,
                    answer |-> PostProcess(content).answer,
                    skip |-> PostProcess(content).skip]
    /\ UNCHANGED <<Store, conversation_history, runs, nstarted, last_set>>

NextText == \E content \in RawTexts : PostProcessed(content)

SpecText == InitText /\ [][NextText]_vars

----------------------------------------------------------------------------
(* Vocabulary of the properties.                                           *)

\* The run has left handle_message.
Ended(r) == r.pc \in {"done", "raised"}

\* The positions of the log of r where `op` was called with tag `tag`.
CallsOf(r, op, tag) == {i \in DOMAIN r.log : r.log[i].op = op /\ r.log[i].tag = tag}

\* The positions of the log of r where `op` was called.
CallsTo(r, op) == {i \in DOMAIN r.log : r.log[i].op = op}

\* The update carries text, a chat and a sender, and the sender is not the bot.
ValidUpdate(u) ==
    /\ u.effective_chat # None
    /\ u.effective_message # None
    /\ u.effective_message[1].text # None
    /\ u.effective_message[1].text[1] # <<>>
    /\ u.effective_message[1].from_user # None
    /\ u.effective_message[1].from_user[1].id # BotId

ChatOf(r) == r.update.effective_chat[1]
TextOf(r) == r.update.effective_message[1].text[1]
SenderOf(r) == r.update.effective_message[1].from_user[1]

\* The chat of the update is allowed, by the rows of the tables.
AuthorizedUpdate(u) ==
    /\ ValidUpdate(u)
    /\ IF u.effective_chat[1].type = PRIVATE
       THEN u.effective_message[1].from_user[1].id \in {row.user_id : row \in allowed_users}
       ELSE u.effective_chat[1].id \in {row.chat_id : row \in allowed_groups}

\* The rows of the history that run r inserted for the message it handles.
InboundRows(r) ==
    {i \in DOMAIN conversation_history :
        /\ conversation_history[i].by = r.rid
        /\ conversation_history[i].chat_id = ChatOf(r).id
        /\ conversation_history[i].user_id = SenderOf(r).id
        /\ conversation_history[i].full_name = SenderOf(r).full_name
        /\ conversation_history[i].message = TextOf(r)}

\* The rows of the history that run r inserted in the name of the bot.
OutboundRows(r) ==
    {i \in DOMAIN conversation_history :
        /\ conversation_history[i].by = r.rid
        /\ conversation_history[i].user_id = BotId}

\* All the rows run r inserted.
RowsBy(r) == {i \in DOMAIN conversation_history : conversation_history[i].by = r.rid}

----------------------------------------------------------------------------
(* Properties.                                                             *)

\* C1: in every run the inbound message is in the history before the
\* inference backend is called (a store_message of the inbound message
\* returned earlier in the run, and its row is there while and after the
\* call is made), and a row in the name of the bot is inserted only after
\* the reply_text of the answer returned successfully in the same run.
C1_PersistenceOrder ==
    \A s \in Slots :
        LET r == runs[s]
        IN  /\ \A i \in CallsTo(r, "chat") :
                  /\ \E j \in CallsOf(r, "store_message", "inbound") :
                        j < i /\ r.log[j].res = "ok"
                  /\ InboundRows(r) # {}
            /\ \A i \in CallsOf(r, "store_message", "outbound") :
                  \E j \in CallsOf(r, "reply_text", "answer") :
                        j < i /\ r.log[j].res = "ok"
            /\ r.pc # "idle" /\ OutboundRows(r) # {} =>
                  /\ \E j \in CallsOf(r, "reply_text", "answer") : r.log[j].res = "ok"
                  /\ \E t \in DOMAIN r.sent : r.sent[t].tag = "answer"

\* C1 witness: a run called the backend, relayed the answer and stored it.
C1_Witness ==
    \E s \in Slots :
        /\ runs[s].pc = "done"
        /\ CallsTo(runs[s], "chat") # {}
        /\ OutboundRows(runs[s]) # {}

\* C2: handle_message never lets a failure out to its caller: no run ends
\* by an exception that nothing caught.
C2_NeverPropagates == \A s \in Slots : runs[s].pc # "raised"

\* The text is the value of the setting `name` if the table has it, and
\* `default` if it has not.
IsSettingOr(text, name, default) ==
    LET rows == {i \in DOMAIN tellama_settings : tellama_settings[i].setting = name}
    IN  IF rows = {} THEN text = default
        ELSE \E i \in rows : text = tellama_settings[i].value

\* C3: when the inference call raises, then at the end of the run the
\* inbound row of the turn is in the history, no row in the name of the bot
\* was inserted or attempted, and, the inference call being the only call
\* that failed, the run returned and the chat received exactly the error
\* message: the value of the setting internal_error_message if it is set,
\* the built-in message if not.
C3_InferenceFailure ==
    \A s \in Slots :
        LET r == runs[s]
        IN  (Ended(r) /\ \E i \in CallsTo(r, "chat") : r.log[i].res = "raised") =>
                /\ Cardinality(InboundRows(r)) = 1
                /\ OutboundRows(r) = {}
                /\ CallsOf(r, "store_message", "outbound") = {}
                /\ r.faults = {"chat"} =>
                      /\ r.pc = "done"
                      /\ Len(r.sent) = 1
                      /\ r.sent[1].tag = "error"
                      /\ r.sent[1].chat_id = ChatOf(r).id
                      /\ IsSettingOr(r.sent[1].text, "internal_error_message",
                                     INTERNAL_ERROR_DEFAULT)

\* C3 witness: a run whose inference call raised has ended with the
\* configured error message delivered.
C3_Witness ==
    \E s \in Slots :
        /\ runs[s].pc = "done"
        /\ \E i \in CallsTo(runs[s], "chat") : runs[s].log[i].res = "raised"
        /\ runs[s].faults = {"chat"}
        /\ tellama_settings # <<>>
        /\ Len(runs[s].sent) = 1

\* The calls of the log of r that read or write the history or call the
\* inference backend.
GatedCalls(r) ==
    {i \in DOMAIN r.log :
        r.log[i].op \in {"get_conversation_history", "store_message", "chat"}}

\* The authorization lookups of the log of r.
AuthCalls(r) ==
    {i \in DOMAIN r.log : r.log[i].op \in {"is_user_allowed", "is_group_allowed"}}

\* C4: a run reads the history, writes it or calls the inference backend
\* only for an update whose chat is allowed (private: a row of allowed_users
\* for the sender; otherwise: a row of allowed_groups for the chat); the
\* lookup is made once per update, it is the lookup of the kind of chat, and
\* it returned before the first of those calls.  A run for a chat that is
\* not allowed inserts no row and builds no request.
C4_AuthorizationGates ==
    \A s \in Slots :
        LET r == runs[s]
        IN  r.pc # "idle" =>
                /\ Cardinality(AuthCalls(r)) <= 1
                /\ ValidUpdate(r.update) => Cardinality(AuthCalls(r)) = 1
                /\ GatedCalls(r) # {} =>
                      /\ AuthorizedUpdate(r.update)
                      /\ \E a \in AuthCalls(r) :
                            /\ r.log[a].res = "ok"
                            /\ r.log[a].op = IF ChatOf(r).type = PRIVATE
                                             THEN "is_user_allowed"
                                             ELSE "is_group_allowed"
                            /\ \A i \in GatedCalls(r) : a < i
                /\ ~AuthorizedUpdate(r.update) =>
                      /\ RowsBy(r) = {}
                      /\ r.request = <<>>

\* C4 witness: a run for an allowed group has read and written the history
\* and called the backend.
C4_Witness ==
    \E s \in Slots :
        /\ AuthorizedUpdate(runs[s].update)
        /\ ChatOf(runs[s]).type # PRIVATE
        /\ CallsTo(runs[s], "get_conversation_history") # {}
        /\ CallsTo(runs[s], "store_message") # {}
        /\ CallsTo(runs[s], "chat") # {}

\* C5: a run for a sender who is not allowed, in a private chat, inserts no
\* row, reads no history and calls no inference; it calls reply_text at most
\* once, what the chat receives is the denial text (the value of the setting
\* private_chat_disallowed_message if it is set, the built-in text if not),
\* and when no call fails the chat receives it exactly once.  A run for a
\* group that is not allowed does none of these: no reply_text at all.
C5_AsymmetricDenial ==
    \A s \in Slots :
        LET r == runs[s]
        IN  (r.pc # "idle" /\ ValidUpdate(r.update) /\ ~AuthorizedUpdate(r.update)) =>
                /\ RowsBy(r) = {}
                /\ GatedCalls(r) = {}
                /\ CallsTo(r, "fetch_instructions_for_group") = {}
                /\ IF ChatOf(r).type = PRIVATE
                   THEN /\ Cardinality(CallsTo(r, "reply_text")) <= 1
                        /\ Len(r.sent) <= 1
                        /\ \A t \in DOMAIN r.sent :
                              /\ r.sent[t].tag = "denial"
                              /\ r.sent[t].chat_id = ChatOf(r).id
                              /\ IsSettingOr(r.sent[t].text,
                                             "private_chat_disallowed_message",
                                             PRIVATE_CHAT_DISALLOWED_DEFAULT)
                        /\ (Ended(r) /\ r.faults = {}) =>
                              r.pc = "done" /\ Len(r.sent) = 1
                   ELSE /\ CallsTo(r, "reply_text") = {}
                        /\ r.sent = <<>>
                        /\ r.faults = {} => r.pc = "done"

\* C5 witness: a sender who is not allowed received the configured denial
\* in a private chat.
C5_Witness ==
    \E s \in Slots :
        /\ runs[s].pc = "done"
        /\ ValidUpdate(runs[s].update)
        /\ ~AuthorizedUpdate(runs[s].update)
        /\ ChatOf(runs[s]).type = PRIVATE
        /\ tellama_settings # <<>>
        /\ Len(runs[s].sent) = 1

\* No call that precedes the mention gate raised in run r.
StoredWithoutFailure(r) ==
    \A i \in DOMAIN r.log :
        (\/ r.log[i].op \in {"is_user_allowed", "is_group_allowed",
                             "get_conversation_history"}
         \/ r.log[i].op = "store_message" /\ r.log[i].tag = "inbound")
        => r.log[i].res = "ok"

\* C6: a run for a valid update of an allowed chat inserts the inbound row
\* of its message exactly once (the authorization lookup, the history read
\* and the insert not failing), and never more than once, whatever happens
\* later in the run: the mention gate stopping it, the inference call
\* raising, the model answering with the skip sentinel, a reply failing.
C6_InboundAlwaysStored ==
    \A s \in Slots :
        LET r == runs[s]
        IN  (r.pc # "idle" /\ AuthorizedUpdate(r.update)) =>
                /\ Cardinality(InboundRows(r)) <= 1
                /\ RowsBy(r) \ OutboundRows(r) = InboundRows(r)
                /\ StoredWithoutFailure(r) => Cardinality(InboundRows(r)) = 1

\* C6 witness: the inference call of a run raised, the run has ended and its
\* inbound row is in the history.
C6_Witness ==
    \E s \in Slots :
        /\ Ended(runs[s])
        /\ AuthorizedUpdate(runs[s].update)
        /\ \E i \in CallsTo(runs[s], "chat") : runs[s].log[i].res = "raised"
        /\ Cardinality(InboundRows(runs[s])) = 1

\* The text begins with "@" and the username of the bot, whatever the case
\* of the letters.
BeginsWithMention(text) ==
    /\ Len(text) >= Len(BotUsername) + 1
    /\ text[1] = "@"
    /\ \A i \in 1..Len(BotUsername) : LowerChar(text[i + 1]) = LowerChar(BotUsername[i])

\* No synchronous call of the first segment of run r raised.
EntryWithoutFailure(r) ==
    /\ StoredWithoutFailure(r)
    /\ \A i \in CallsTo(r, "fetch_instructions_for_group") : r.log[i].res = "ok"

\* C7: in an allowed chat that is not private, a message that does not
\* begin with the mention never reaches the inference backend, is never
\* answered by the model and gets no row in the name of the bot; with no
\* store call failing the run returns with the inbound row inserted and no
\* reply at all.  In a private chat there is no gate: every message of an
\* allowed sender reaches the inference call (no store call failing).
C7_MentionGate ==
    \A s \in Slots :
        LET r == runs[s]
        IN  (r.pc # "idle" /\ AuthorizedUpdate(r.update)) =>
                /\ (ChatOf(r).type # PRIVATE /\ ~BeginsWithMention(TextOf(r))) =>
                      /\ CallsTo(r, "chat") = {}
                      /\ r.request = <<>>
                      /\ CallsOf(r, "reply_text", "answer") = {}
                      /\ OutboundRows(r) = {}
                      /\ StoredWithoutFailure(r) =>
                            /\ r.pc = "done"
                            /\ Cardinality(InboundRows(r)) = 1
                            /\ CallsTo(r, "reply_text") = {}
                            /\ r.sent = <<>>
                /\ (ChatOf(r).type = PRIVATE /\ EntryWithoutFailure(r)) =>
                      /\ CallsTo(r, "chat") # {}
                      /\ Cardinality(InboundRows(r)) = 1

\* C7 witness: a message that mentions the bot, but not at its start, was
\* stored in an allowed group and the run returned.
C7_Witness ==
    \E s \in Slots :
        /\ runs[s].pc = "done"
        /\ AuthorizedUpdate(runs[s].update)
        /\ ChatOf(runs[s]).type # PRIVATE
        /\ TextOf(runs[s]) = TextMentionLater
        /\ Cardinality(InboundRows(runs[s])) = 1

\* C8: when the inference call returned and the answer left by the
\* post-processing is the skip sentinel, the run returns without calling
\* reply_text, nothing is delivered, no row in the name of the bot is
\* inserted or attempted, and the inbound row of the turn is in the history.
C8_SkipSentinel ==
    \A s \in Slots :
        LET r == runs[s]
        IN  ((\E i \in CallsTo(r, "chat") : r.log[i].res = "ok") /\ r.answer = SKIP) =>
                /\ r.pc = "done"
                /\ CallsTo(r, "reply_text") = {}
                /\ r.sent = <<>>
                /\ CallsOf(r, "store_message", "outbound") = {}
                /\ OutboundRows(r) = {}
                /\ Cardinality(InboundRows(r)) = 1

\* C8 witness: the model wrapped the sentinel in white space or put a
\* reasoning block before it, and the run returned.
C8_Witness ==
    \E s \in Slots :
        /\ runs[s].pc = "done"
        /\ \E i \in CallsTo(runs[s], "chat") : runs[s].log[i].res = "ok"
        /\ runs[s].answer = SKIP
        /\ runs[s].content # SKIP

\* C9: every row of the history whose user_id is the bot's was inserted by a
\* run for a valid update of an allowed chat, into the chat of that update,
\* after the run's inference call returned and Telegram delivered the answer
\* to that chat; its message is the post-processed answer that was
\* delivered, which is not the skip sentinel; a run inserts at most one such
\* row, and inbound rows never carry the bot's user_id.
C9_AgentRows ==
    /\ \A i \in DOMAIN conversation_history :
          conversation_history[i].user_id = BotId =>
              conversation_history[i].by \in 1..nstarted
    /\ \A s \in Slots :
          LET r == runs[s]
          IN  /\ Cardinality(OutboundRows(r)) <= 1
              /\ \A i \in OutboundRows(r) :
                    LET row == conversation_history[i]
                    IN  /\ AuthorizedUpdate(r.update)
                        /\ row.chat_id = ChatOf(r).id
                        /\ \E c \in CallsTo(r, "chat") : r.log[c].res = "ok"
                        /\ row.message = Strip(row.message)
                        /\ row.message # SKIP
                        /\ ~Contains(row.message, THINK_CLOSE)
                        /\ \E t \in DOMAIN r.sent :
                              /\ r.sent[t].tag = "answer"
                              /\ r.sent[t].chat_id = row.chat_id
                              /\ r.sent[t].text = row.message
                        /\ i \notin InboundRows(r)

\* C9 witness: the history holds a row in the name of the bot whose text is
\* what is left of a response with a reasoning block.
C9_Witness ==
    \E s \in Slots :
        /\ OutboundRows(runs[s]) # {}
        /\ Contains(runs[s].content, THINK_CLOSE)

\* The chat ids of the model.
ChatIds == {1, 2, 11, 12, 13}

\* The positions of the rows of chat_id in the history, and the m-th of them.
RowsOfChat(chat_id) ==
    {i \in DOMAIN conversation_history : conversation_history[i].chat_id = chat_id}
NthRowOfChat(chat_id, m) ==
    CHOOSE i \in RowsOfChat(chat_id) :
        Cardinality({j \in RowsOfChat(chat_id) : j <= i}) = m

\* C10: for every chat and every limit from 1 to MaxLimit,
\* get_conversation_history returns min(limit, n) entries, n being the number
\* of rows of the chat, and its j-th entry is the (n - min(limit, n) + j)-th
\* row of the chat in insertion order, with timestamp, chat_name, user_id,
\* full_name and message as they were inserted.
C10_HistoryWindow ==
    \A chat_id \in ChatIds, limit \in 1..MaxLimit :
        LET n == Cardinality(RowsOfChat(chat_id))
            k == IF limit < n THEN limit ELSE n
            out == get_conversation_history(conversation_history, chat_id, limit)
        IN  /\ Len(out) = k
            /\ \A j \in 1..k :
                  LET row == conversation_history[NthRowOfChat(chat_id, n - k + j)]
                  IN  /\ out[j].chat_id = chat_id
                      /\ out[j].timestamp = row.timestamp
                      /\ out[j].chat_name = row.chat_name
                      /\ out[j].user_id = row.user_id
                      /\ out[j].full_name = row.full_name
                      /\ out[j].message = row.message

\* C10 witness: a chat has three rows, so that limits below the number of
\* rows and a limit that reaches it are asked for.
C10_Witness ==
    \E chat_id \in ChatIds :
        /\ Cardinality(RowsOfChat(chat_id)) = 3
        /\ MaxLimit >= 3

\* The rows of tellama_settings that hold the setting `name`.
RowsOfSetting(name) ==
    {i \in DOMAIN tellama_settings : tellama_settings[i].setting = name}

\* C11: set_setting is an upsert by name and the last write wins: after any
\* sequence of set_setting calls get_setting(name) is the value the most
\* recent set_setting(name, ...) was given (None if there was none), the
\* table has at most one row for a name, and a get_setting that was called
\* returned that value.
C11_LastWriteWins ==
    /\ \A name \in SettingNames :
          /\ get_setting(name) = last_set[name]
          /\ Cardinality(RowsOfSetting(name)) <= 1
    /\ returned.op = "get_setting" => returned.value = last_set[returned.setting]

\* The rows of chat_instructions with this chat_id column, by position.
InstructionRowsOf(chat_id) ==
    {i \in DOMAIN chat_instructions : chat_instructions[i].chat_id = chat_id}

\* The text of the first of these rows.
FirstText(positions) ==
    chat_instructions[CHOOSE i \in positions : \A j \in positions : i <= j].instructions

\* The three tiers: the row of the chat, else the default row, else the
\* built-in constant.
Resolved(chat_id) ==
    IF InstructionRowsOf(Some(chat_id)) # {} THEN FirstText(InstructionRowsOf(Some(chat_id)))
    ELSE IF InstructionRowsOf(None) # {} THEN FirstText(InstructionRowsOf(None))
    ELSE DEFAULT_INSTRUCTIONS

\* C12: whatever the table holds, fetch_instructions_for_group(chat_id)
\* returns one text resolved in three tiers: the text of the chat's own row
\* if there is one, else the text of the default row (null chat_id) if there
\* is one, else the built-in constant; a missing row is never a failure, and
\* the rows of other chats have no part in the result.
C12_ThreeTierInstructions ==
    returned.op = "fetch_instructions_for_group" =>
        /\ returned.value = Resolved(returned.chat_id)
        /\ returned.value \in
              {chat_instructions[i].instructions :
                  i \in InstructionRowsOf(Some(returned.chat_id)) \cup InstructionRowsOf(None)}
              \cup {DEFAULT_INSTRUCTIONS}

\* The instructions of group 13 were fetched from a table whose first row is
\* another chat's and whose second row is the default.
C12_Witness ==
    /\ returned.op = "fetch_instructions_for_group"
    /\ returned.chat_id = 13
    /\ Len(chat_instructions) = 2
    /\ chat_instructions[1] = [chat_id |-> Some(11), instructions |-> <<"g">>]
    /\ chat_instructions[2] = [chat_id |-> None, instructions |-> <<"d">>]
    /\ returned.value = <<"d">>

\* t has no whitespace at either end.
IsTrimmed(t) == t = <<>> \/ (~IsSpace(t[1]) /\ ~IsSpace(t[Len(t)]))

\* a is t without the whitespace at its ends.
IsTrimOf(a, t) ==
    /\ IsTrimmed(a)
    /\ \E i \in 1..(Len(t) + 1), j \in 0..Len(t) :
          /\ a = SubSeq(t, i, j)
          /\ \A k \in 1..(i - 1) : IsSpace(t[k])
          /\ \A k \in (j + 1)..Len(t) : IsSpace(t[k])

\* The positions in t where the close marker starts.
MarkersIn(t) ==
    {k \in 1..(Len(t) - Len(THINK_CLOSE) + 1) :
        SubSeq(t, k, k + Len(THINK_CLOSE) - 1) = THINK_CLOSE}

\* C13: the post-processed text is the raw text trimmed; if the raw text
\* holds the close marker, all up to and including the (last) marker is
\* dropped and the rest trimmed again; the run skips iff this text is exactly
\* "<skip>".  So "abc</think>  hello " gives "hello", "<skip>" skips,
\* "  plain " gives "plain", and a text that is relayed holds no marker, has no
\* whitespace at its ends and is not "<skip>".
C13_PostProcessing ==
    returned.op = "post_process" =>
        LET c == returned.content
            a == returned.answer
        IN  /\ IF MarkersIn(c) = {}
               THEN IsTrimOf(a, c)
               ELSE \E k \in MarkersIn(c) :
                       IsTrimOf(a, SubSeq(c, k + Len(THINK_CLOSE), Len(c)))
            /\ returned.skip <=> (a = SKIP)
            /\ c = ThinkThenHello => a = <<"h", "e", "l", "l", "o">> /\ ~returned.skip
            /\ c = SKIP => returned.skip
            /\ c = PaddedPlain => a = <<"p", "l", "a", "i", "n">> /\ ~returned.skip
            /\ ~returned.skip => MarkersIn(a) = {} /\ IsTrimmed(a) /\ a # SKIP

\* "abc</think>  hello " was post-processed to "hello".
C13_Witness ==
    /\ returned.op = "post_process"
    /\ returned.content = ThinkThenHello
    /\ returned.answer = <<"h", "e", "l", "l", "o">>
    /\ ~returned.skip

\* C14: an update without a chat, without a message, with no or empty text,
\* without a sender, or sent by the bot itself is dropped silently: the run
\* has returned, it called neither the store nor the inference backend nor
\* Telegram, it sent nothing and inserted no row.
C14_SilentDrop ==
    \A s \in Slots :
        LET r == runs[s]
        IN  (r.pc # "idle" /\ ~ValidUpdate(r.update)) =>
                /\ r.pc = "done"
                /\ r.log = <<>>
                /\ r.sent = <<>>
                /\ r.request = <<>>
                /\ RowsBy(r) = {}

\* The bot's own message in the allowed group 11, beginning with a mention of
\* the bot, was delivered after another run had stored a row, and was dropped.
C14_Witness ==
    \E s \in Slots :
        /\ runs[s].pc = "done"
        /\ runs[s].update = Update(Group11, Some(TextMention), Some(Bot))
        /\ runs[s].log = <<>>
        /\ conversation_history # <<>>

\* The number of rows of allowed_groups for this chat.
GroupRows(chat_id) == Cardinality({row \in allowed_groups : row.chat_id = chat_id})

\* The number of rows of allowed_users for this user.
UserRows(user_id) == Cardinality({row \in allowed_users : row.user_id = user_id})

\* C15: is_group_allowed and is_user_allowed are existence checks without
\* effect: each is true iff a row of its table has the id; a result that was
\* returned stays the result however many lookups and handle_message steps
\* follow; a lookup changes nothing in the store, and no step of
\* handle_message changes the two tables.
C15_LookupsArePure ==
    /\ [](/\ \A id \in ChatIds : is_group_allowed(id) <=> GroupRows(id) > 0
          /\ \A id \in ChatIds : is_user_allowed(id) <=> UserRows(id) > 0
          /\ returned.op = "is_group_allowed" =>
                returned.value = (GroupRows(returned.id) > 0)
          /\ returned.op = "is_user_allowed" =>
                returned.value = (UserRows(returned.id) > 0))
    /\ [][/\ allowed_groups' = allowed_groups
          /\ allowed_users' = allowed_users
          /\ \A id \in ChatIds :
                /\ is_group_allowed(id)' = is_group_allowed(id)
                /\ is_user_allowed(id)' = is_user_allowed(id)
          /\ runs' = runs =>
                UNCHANGED <<Store, conversation_history, nstarted, last_set>>]_vars

\* is_user_allowed(1) returned true after a run of handle_message had
\* inserted rows into the history.
C15_Witness ==
    /\ returned.op = "is_user_allowed"
    /\ returned.id = Ann.id
    /\ returned.value
    /\ conversation_history # <<>>
    /\ \E s \in Slots : Ended(runs[s])

\* The entry of the context renders the history row: the bot's rows as
\* assistant turns with the text alone, the others as user turns with the
\* author's name before the text.
Renders(entry, row) ==
    IF row.user_id = BotId
    THEN entry = [role |-> "assistant", content |-> row.message]
    ELSE entry = [role |-> "user", content |-> row.full_name \o <<":", " ">> \o row.message]

\* The rows of the chat of r that were in the history before r stored its
\* inbound message, and the m-th of them.
PriorRows(r) ==
    {j \in RowsOfChat(ChatOf(r).id) : \A i \in InboundRows(r) : j < i}
NthPriorRow(r, m) ==
    CHOOSE i \in PriorRows(r) : Cardinality({j \in PriorRows(r) : j <= i}) = m

\* C16: the messages a run passes to the inference backend are the window
\* of the chat's history as it was before the run stored its inbound message
\* (the last min(history_limit, n) of the n rows the chat then had, oldest
\* first), followed by exactly one turn: role user, content the chat's
\* instructions, a blank line, and "<full name>: <text>" of the current
\* message.  The current message is in the final turn only.
C16_RequestShape ==
    \A s \in Slots :
        LET r == runs[s]
            n == Cardinality(PriorRows(r))
            k == IF history_limit < n THEN history_limit ELSE n
        IN  CallsTo(r, "chat") # {} =>
                /\ Cardinality(InboundRows(r)) = 1
                /\ Len(r.request) = k + 1
                /\ \A j \in 1..k :
                      Renders(r.request[j], conversation_history[NthPriorRow(r, n - k + j)])
                /\ r.request[k + 1] =
                      [role |-> "user",
                       content |-> Resolved(ChatOf(r).id) \o <<"\n", "\n">>
                                   \o SenderOf(r).full_name \o <<":", " ">> \o TextOf(r)]

\* A run called the inference backend for a chat that had more rows than
\* history_limit, with instructions from the chat's own row.
C16_Witness ==
    \E s \in Slots :
        /\ CallsTo(runs[s], "chat") # {}
        /\ Cardinality(PriorRows(runs[s])) > history_limit
        /\ Len(runs[s].request) = history_limit + 1
        /\ InstructionRowsOf(Some(ChatOf(runs[s]).id)) # {}

\* C17: the context is assembled entry by entry and in order: for every chat
\* and every limit, the messages assembled from the fetched window are as
\* many as its entries, the i-th message is an assistant turn with the text
\* alone if the i-th entry's user_id is the bot's, and a user turn with
\* "<full_name>: <text>" otherwise; and the context a run assembled is this
\* rendering of the rows its chat had before its own inbound row.
C17_ContextAssembly ==
    /\ \A chat_id \in ChatIds, limit \in 1..MaxLimit :
          LET window == get_conversation_history(conversation_history, chat_id, limit)
              messages == AssembleMessages(window)
          IN  /\ Len(messages) = Len(window)
              /\ \A i \in 1..Len(window) :
                    /\ messages[i].role =
                          (IF window[i].user_id = BotId THEN "assistant" ELSE "user")
                    /\ Renders(messages[i], window[i])
    /\ \A s \in Slots :
          LET r == runs[s]
              n == Cardinality(PriorRows(r))
              k == IF history_limit < n THEN history_limit ELSE n
          IN  (ValidUpdate(r.update) /\ InboundRows(r) # {}) =>
                  /\ Len(r.messages) = k
                  /\ \A j \in 1..k :
                        Renders(r.messages[j],
                                conversation_history[NthPriorRow(r, n - k + j)])

\* The window of a chat holds a row of a user followed by a row of the bot,
\* and a run assembled an assistant turn from a row of the bot.
C17_Witness ==
    /\ \E chat_id \in ChatIds :
          LET messages == AssembleMessages(
                  get_conversation_history(conversation_history, chat_id, MaxLimit))
          IN  \E i, j \in DOMAIN messages :
                  i < j /\ messages[i].role = "user" /\ messages[j].role = "assistant"
    /\ \E s \in Slots :
          /\ runs[s].messages # <<>>
          /\ runs[s].messages[1].role = "assistant"

\* C18: the history is append-only: whatever a step does, the history before
\* it is a prefix of the history after it; no row is changed, moved or
\* removed.
C18_AppendOnly ==
    [][/\ Len(conversation_history) <= Len(conversation_history')
       /\ \A i \in DOMAIN conversation_history :
             conversation_history'[i] = conversation_history[i]]_vars

\* Two runs have appended rows to the history: it holds at least three rows,
\* inbound and outbound.
C18_Witness ==
    /\ Len(conversation_history) >= 3
    /\ \E i \in DOMAIN conversation_history : conversation_history[i].user_id = BotId
    /\ \E i \in DOMAIN conversation_history : conversation_history[i].user_id # BotId

\* The row is an inbound message (its author is not the bot).
IsInbound(row) == row.user_id # BotId

\* The store_message calls of r that returned.
StoresDone(r) == {i \in DOMAIN r.log : r.log[i].op = "store_message" /\ r.log[i].res = "ok"}

\* C19: with runs of handle_message interleaved at their awaits, the order
\* of the history is the order of processing in each chat: of two inbound
\* rows of a chat the earlier one was stored by the run that started
\* earlier; the outbound row of a run comes after the inbound row of that run
\* in the same chat; no append is lost: every run has as many rows as
\* store_message calls that returned, and no step removes or changes a row.
C19_AppendOrder ==
    /\ [](/\ \A i, j \in DOMAIN conversation_history :
                (/\ i < j
                 /\ conversation_history[i].chat_id = conversation_history[j].chat_id
                 /\ IsInbound(conversation_history[i])
                 /\ IsInbound(conversation_history[j]))
                => conversation_history[i].by < conversation_history[j].by
          /\ \A j \in DOMAIN conversation_history :
                ~IsInbound(conversation_history[j]) =>
                    \E i \in 1..(j - 1) :
                        /\ conversation_history[i].by = conversation_history[j].by
                        /\ conversation_history[i].chat_id = conversation_history[j].chat_id
                        /\ IsInbound(conversation_history[i])
          /\ \A s \in Slots :
                runs[s].pc # "idle" /\ ValidUpdate(runs[s].update) =>
                    Cardinality(RowsBy(runs[s])) = Cardinality(StoresDone(runs[s])))
    /\ [][\A i \in DOMAIN conversation_history :
             /\ i \in DOMAIN conversation_history'
             /\ conversation_history'[i] = conversation_history[i]]_vars

\* Two runs on group 11 interleaved: the first stored its inbound row and was
\* suspended, the second stored its inbound row, and then the first stored
\* its outbound row while the second was still suspended.
C19_Witness ==
    /\ Len(conversation_history) = 3
    /\ conversation_history[1].by = 1 /\ IsInbound(conversation_history[1])
    /\ conversation_history[2].by = 2 /\ IsInbound(conversation_history[2])
    /\ conversation_history[3].by = 1 /\ ~IsInbound(conversation_history[3])
    /\ \A i \in 1..3 : conversation_history[i].chat_id = Group11.id
    /\ \E s \in Slots : runs[s].rid = 2 /\ runs[s].pc = "infer"

\* C20: nothing is retried: a run calls the inference backend at most once,
\* and once that call has raised the run calls nothing but the lookup of the
\* error message and the reply that carries it: the inference backend is not
\* called again, and nothing is stored or relayed as an answer.
C20_NoRetry ==
    \A s \in Slots :
        LET r == runs[s]
        IN  /\ Cardinality(CallsTo(r, "chat")) <= 1
            /\ \A i \in CallsTo(r, "chat") :
                  r.log[i].res = "raised" =>
                      \A j \in (i + 1)..Len(r.log) :
                          \/ r.log[j].op = "get_setting"
                          \/ r.log[j].op = "reply_text" /\ r.log[j].tag = "error"

\* A run whose inference call raised went through its except block and
\* ended, with one inference call in its log.
C20_Witness ==
    \E s \in Slots :
        /\ Ended(runs[s])
        /\ Cardinality(CallsTo(runs[s], "chat")) = 1
        /\ \E i \in CallsTo(runs[s], "chat") :
              /\ runs[s].log[i].res = "raised"
              /\ i < Len(runs[s].log)
              /\ runs[s].log[Len(runs[s].log)].op \in {"get_setting", "reply_text"}

OnlyChat(table, chat_id) == SelectSeq(table, LAMBDA row : row.chat_id = chat_id)

\* The history as it was before r stored its inbound message.
HistoryBefore(r) ==
    SubSeq(conversation_history, 1, (CHOOSE i \in InboundRows(r) : TRUE) - 1)

\* What a history row holds besides the id and the timestamp the store
\* assigns.
Entry(row) ==
    [chat_id |-> row.chat_id, chat_name |-> row.chat_name, user_id |-> row.user_id,
     full_name |-> row.full_name, message |-> row.message]

\* C22: chats are isolated.  The window of a chat holds entries of that chat
\* only and is what it would be were the rows of all other chats absent, for
\* every chat and limit; the messages a run passes to the inference backend
\* are what the run would pass had the history held the rows of its chat
\* only; and the rows a run appends are rows of its chat, made of its update,
\* its answer and the bot's name alone.
C22_ChatIsolation ==
    /\ \A chat_id \in ChatIds, limit \in 1..MaxLimit :
          LET window == get_conversation_history(conversation_history, chat_id, limit)
          IN  /\ window = get_conversation_history(
                              OnlyChat(conversation_history, chat_id), chat_id, limit)
              /\ \A i \in DOMAIN window :
                    \E j \in RowsOfChat(chat_id) :
                        Entry(window[i]) = Entry(conversation_history[j])
    /\ \A s \in Slots :
          LET r == runs[s]
          IN  /\ CallsTo(r, "chat") # {} =>
                    r.request =
                        AssembleMessages(get_conversation_history(
                            OnlyChat(HistoryBefore(r), ChatOf(r).id),
                            ChatOf(r).id, history_limit))
                        \o <<[role |-> "user",
                              content |-> Prompt(Resolved(ChatOf(r).id), SenderOf(r), TextOf(r))]>>
              /\ (r.pc # "idle" /\ ValidUpdate(r.update)) =>
                    \A i \in RowsBy(r) :
                        LET row == conversation_history[i]
                        IN  /\ row.chat_id = ChatOf(r).id
                            /\ row.chat_name = r.chat_name
                            /\ \/ /\ row.user_id = SenderOf(r).id
                                  /\ row.full_name = SenderOf(r).full_name
                                  /\ row.message = TextOf(r)
                               \/ /\ row.user_id = BotId
                                  /\ row.message = r.answer

\* A run called the inference backend for group 11 when the history held an
\* inbound and an outbound row of another chat and no row of group 11: its
\* request is the final turn alone.
C22_Witness ==
    \E s \in Slots :
        /\ CallsTo(runs[s], "chat") # {}
        /\ ChatOf(runs[s]).id = Group11.id
        /\ Len(HistoryBefore(runs[s])) = 2
        /\ \A j \in DOMAIN HistoryBefore(runs[s]) :
              conversation_history[j].chat_id # Group11.id
        /\ Len(runs[s].request) = 1

====
